---- MODULE Spec2Model ----
(***************************************************************************)
(* Feature caching and bag-of-visual-words pipeline of                     *)
(* classifier/classifier.py.  The state is the objects/ directory tree,    *)
(* the position of the script (module level, lines 422-449) and the locals *)
(* of the get_features call in progress.  A process may be killed          *)
(* at any point; only the files survive.                                   *)
(***************************************************************************)
EXTENDS Integers, Sequences, FiniteSets, TLC

VARIABLES
    fs,               \* objects/: file |-> pickled content
    writer,           \* history: file |-> split (train flag) of the call that wrote it
    pc,               \* position of the script
    train,            \* the `train` argument of the get_features call in progress
    train_images,     \* module level, line 423
    test_images,      \* module level, line 424
    haralicks,        \* locals of get_features
    lbps,
    labels,
    alldescriptors,
    km,
    surf_descriptors,
    train_result,     \* module level, line 427
    test_result,      \* module level, line 432
    csv,              \* rows of the last submission file written
    runs,             \* number of times the script was started
    decodes,          \* history: images read by the call in progress
    fits,             \* history: km.fit calls of the call in progress
    reads,            \* history: files unpickled by the call in progress
    wlog,             \* history: files written by the call in progress
    preexisting,      \* history: files of the split present when the call began
    enc_train,        \* encoder harness: the split
    enc_d,            \* encoder harness: a descriptor set
    enc_km,           \* encoder harness: a fitted vocabulary
    enc_out           \* encoder harness: the histogram, or None before encoding

vars == <<fs, writer, pc, train, train_images, test_images, haralicks, lbps, labels,
          alldescriptors, km, surf_descriptors, train_result, test_result, csv, runs,
          decodes, fits, reads, wlog, preexisting, enc_train, enc_d, enc_km, enc_out>>

pipeVars == <<fs, writer, pc, train, train_images, test_images, haralicks, lbps, labels,
              alldescriptors, km, surf_descriptors, train_result, test_result, csv, runs,
              decodes, fits, reads, wlog, preexisting>>

encVars == <<enc_train, enc_d, enc_km, enc_out>>

----------------------------------------------------------------------------
(* Bounds *)

\* how many times the script is started
MaxRuns == 2
\* how many distinct outcomes the unseeded clustering can have on the same data
MaxSeed == 2
\* longest descriptor set handed to the encoder harness
MaxDesc == 2

----------------------------------------------------------------------------
(* Values *)

\* Python values carry their type
None == [type |-> "NoneType"]

\* a Python list
List(items) == [type |-> "list", rows |-> items]

\* np.array(list): one row per item
NdArray(list) == [type |-> "ndarray", rows |-> list.rows]

\* line 219
ClassNames == <<"c0", "c1", "c2", "c3", "c4", "c5", "c6", "c7", "c8", "c9">>

\* file names a directory of images may hold, in lexicographic order
FileNames == <<"img_1.jpg", "img_2.jpg">>

\* the image files that may exist under imgs/train/<class>/
TrainUniverse ==
    { <<"imgs", "train", "c0", "img_2.jpg">>,
      <<"imgs", "train", "c1", "img_1.jpg">> }

\* the image files that may exist under imgs/test/
TestUniverse ==
    { <<"imgs", "test", "img_1.jpg">>,
      <<"imgs", "test", "img_2.jpg">> }

\* values a local descriptor can take (one dimension stands for the 64)
DescVals == 0 .. 3

IndexIn(seq, x) == CHOOSE i \in 1 .. Len(seq) : seq[i] = x

\* rank of one path segment in the lexicographic order of strings
SegRank(s) ==
    IF s \in {ClassNames[i] : i \in 1 .. Len(ClassNames)} THEN IndexIn(ClassNames, s)
    ELSE IF s \in {FileNames[i] : i \in 1 .. Len(FileNames)} THEN IndexIn(FileNames, s)
    ELSE 0

\* p < q as strings 'imgs/<split>/.../<file>' of the same split
PathLess(p, q) ==
    \E i \in 1 .. Len(p) :
        /\ \A j \in 1 .. (i - 1) : p[j] = q[j]
        /\ SegRank(p[i]) < SegRank(q[i])

RECURSIVE SortedSeq(_)
SortedSeq(S) ==
    IF S = {} THEN <<>>
    ELSE LET m == CHOOSE x \in S : \A y \in S \ {x} : PathLess(x, y)
         IN  <<m>> \o SortedSeq(S \ {m})

\* get_images: glob the split's files, then images.sort()
GetImages(tr, disk) == SortedSeq(disk)

----------------------------------------------------------------------------
(* Numbers *)

RECURSIVE IsqrtBetween(_, _, _)
\* the r with r * r <= n < (r + 1) * (r + 1), given lo * lo <= n < hi * hi
IsqrtBetween(n, lo, hi) ==
    IF hi - lo <= 1 THEN lo
    ELSE LET mid == (lo + hi) \div 2
         IN  IF mid * mid <= n THEN IsqrtBetween(n, mid, hi) ELSE IsqrtBetween(n, lo, mid)

\* floor of the square root
Isqrt(n) == IsqrtBetween(n, 0, IF n + 1 < 46341 THEN n + 1 ELSE 46341)

\* lines 363, 366: k = math.sqrt(N/2), `/' being Python 2's integer division.
\* The real number sqrt(n) is kept exactly, by its radicand.
KOf(tr) == [sqrt_of |-> (IF tr THEN 22425 ELSE 79727) \div 2]

\* a float used where an integer is required is truncated
ToInt(k) == Isqrt(k.sqrt_of)

IsIntegral(k) == ToInt(k) * ToInt(k) = k.sqrt_of

----------------------------------------------------------------------------
(* Artifact store: get_obj, save_obj *)

TrainDir == "objects/train/"
TestDir == "objects/test/"

\* lines 362-367: the directory get_features lists
PathOf(tr) == IF tr THEN TrainDir ELSE TestDir

\* lines 290-293
GetObjFilename(tr, objectContent) ==
    IF tr THEN [dir |-> TrainDir, name |-> <<"train_", objectContent, ".obj">>]
    ELSE [dir |-> TestDir, name |-> <<"test_", objectContent, ".obj">>]

\* variant: the split is ignored, every artifact goes to objects/train/
SaveObjFilenameAnySplit(tr, objectContent) ==
    [dir |-> TrainDir, name |-> <<"train_", objectContent, ".obj">>]

\* variant: the directory follows the split, the name prefix does not
SaveObjFilenameTmp(tr, objectContent) ==
    IF tr THEN [dir |-> TrainDir, name |-> <<"train_", objectContent, ".obj">>]
    ELSE [dir |-> TestDir, name |-> <<"train_", objectContent, ".obj">>]

\* lines 320-323
SaveObjFilename(tr, objectContent) ==
    IF tr THEN [dir |-> TrainDir, name |-> <<"train_", objectContent, ".obj">>]
    ELSE [dir |-> TestDir, name |-> <<"test_", objectContent, ".obj">>]

\* pickle.dump / pickle.load
Pickle(obj) == [pickled |-> obj]
Unpickle(bytes) == bytes.pickled

\* a file system with file f holding bytes
WriteFile(files, f, bytes) ==
    [g \in DOMAIN files \cup {f} |-> IF g = f THEN bytes ELSE files[g]]

\* variant: the file is never found
get_objMiss(files, tr, objectContent) == None

\* lines 295-300
get_obj(files, tr, objectContent) ==
    LET filename == GetObjFilename(tr, objectContent)
    IN  IF filename \in DOMAIN files THEN Unpickle(files[filename]) ELSE None

\* lines 325-326
save_obj(files, tr, objectContent, obj) ==
    WriteFile(files, SaveObjFilename(tr, objectContent), Pickle(obj))

\* line 369: the names in `path' that end with '.obj'
ObjFiles(files, path) ==
    {f \in DOMAIN files : f.dir = path /\ f.name[Len(f.name)] = ".obj"}

object_dir_file_num(files, path) == Cardinality(ObjFiles(files, path))

\* variant: the cached branch is never taken
CacheCompleteNever(n) == FALSE

\* line 371
CacheComplete(n) == n = 5

----------------------------------------------------------------------------
(* Per-image features: deterministic functions of the image file *)

\* stands for the pixels of the file
ImageCode(fname) == SegRank(fname[Len(fname) - 1]) + 2 * SegRank(fname[Len(fname)])

\* line 378, compute_texture (lines 26-41)
compute_texture(fname) == [haralick_of |-> fname]

\* line 379, compute_lbp (lines 44-59)
compute_lbp(fname) == [lbp_of |-> fname]

\* line 383: fname.split('/')[2]
LabelOf(fname) == fname[3]

\* lines 386-390: dense SURF on the image resized to 600x450; every image
\* yields the same number of descriptors
DenseSurf(fname) == << ImageCode(fname) % 4, (ImageCode(fname) \div 2) % 4 >>

RECURSIVE Concatenate(_)
\* line 396: np.concatenate of a non-empty list
Concatenate(list) ==
    IF list = <<>> THEN <<>> ELSE Head(list) \o Concatenate(Tail(list))

\* line 399: concatenated[::64]
Subsample(rows) == [i \in 1 .. ((Len(rows) + 63) \div 64) |-> rows[(i - 1) * 64 + 1]]

----------------------------------------------------------------------------
(* Vocabulary and histogram *)

\* lines 262-264: MiniBatchKMeans(n_clusters=k).fit(descriptors); the clustering
\* is unseeded, `seed' is the outcome it happened to have
Fit(k, descriptors, seed) ==
    [type |-> "MiniBatchKMeans", n_clusters |-> k, fit_on |-> descriptors, seed |-> seed]

\* number of centers of a fitted model
NumCenters(m) == ToInt(m.n_clusters)

\* index (from 0) of the center nearest to descriptor x
NearestCenter(m, x) == (x * m.seed + m.fit_on[1]) % NumCenters(m)

\* line 404: km.predict(d), one label per descriptor
Predict(m, d) == [i \in 1 .. Len(d) |-> NearestCenter(m, d[i])]

Max(a, b) == IF a >= b THEN a ELSE b

MaxLabel(c) == IF c = <<>> THEN -1 ELSE CHOOSE x \in {c[i] : i \in 1 .. Len(c)} :
                                           \A i \in 1 .. Len(c) : c[i] <= x

\* variant: np.bincount(c), without minlength
BincountNoMinlength(c, minlength) ==
    [j \in 1 .. (MaxLabel(c) + 1) |-> Cardinality({i \in 1 .. Len(c) : c[i] = j - 1})]

\* line 405: np.bincount(c, minlength=k); entry j of the array is at position j + 1
Bincount(c, minlength) ==
    [j \in 1 .. Max(ToInt(minlength), MaxLabel(c) + 1) |->
        Cardinality({i \in 1 .. Len(c) : c[i] = j - 1})]

\* lines 404-405 for one image
Encode(m, k, d) == Bincount(Predict(m, d), k)

----------------------------------------------------------------------------
(* The script *)

\* the list the call in progress was given (lines 427, 432)
Images == IF train THEN train_images ELSE test_images

NoFiles == [f \in {} |-> None]

InitPipe ==
    /\ fs = NoFiles
    /\ writer = NoFiles
    /\ pc = "idle"
    /\ train = TRUE
    /\ train_images = <<>>
    /\ test_images = <<>>
    /\ haralicks = List(<<>>)
    /\ lbps = List(<<>>)
    /\ labels = List(<<>>)
    /\ alldescriptors = List(<<>>)
    /\ km = None
    /\ surf_descriptors = None
    /\ train_result = None
    /\ test_result = None
    /\ csv = None
    /\ runs = 0
    /\ decodes = 0
    /\ fits = 0
    /\ reads = {}
    /\ wlog = {}
    /\ preexisting = {}

InitEnc ==
    /\ enc_train = TRUE
    /\ enc_d = <<>>
    /\ enc_km = None
    /\ enc_out = None

Init == InitPipe /\ InitEnc

\* lines 357-360: the locals as a call starts with them
FreshLocals ==
    /\ haralicks' = List(<<>>)
    /\ lbps' = List(<<>>)
    /\ labels' = List(<<>>)
    /\ alldescriptors' = List(<<>>)
    /\ km' = None
    /\ surf_descriptors' = None

FreshHistory ==
    /\ decodes' = 0
    /\ fits' = 0
    /\ reads' = {}
    /\ wlog' = {}
    /\ preexisting' = {}

\* lines 423-424: a process starts and lists the image directories
StartScript ==
    /\ pc \in {"idle", "done", "error"}
    /\ runs < MaxRuns
    /\ runs' = runs + 1
    /\ \E trainDisk \in SUBSET TrainUniverse, testDisk \in SUBSET TestUniverse :
          /\ train_images' = GetImages(TRUE, trainDisk)
          /\ test_images' = GetImages(FALSE, testDisk)
    /\ train' = TRUE
    /\ pc' = "get_features"
    /\ train_result' = None
    /\ test_result' = None
    /\ FreshLocals
    /\ FreshHistory
    /\ UNCHANGED <<fs, writer, csv>>

\* lines 357-399: the cache check, then either the cached artifacts or the
\* per-image features; np.concatenate raises on an empty list
GetFeaturesEntry ==
    /\ pc = "get_features"
    /\ preexisting' = ObjFiles(fs, PathOf(train))
    /\ wlog' = {}
    /\ fits' = 0
    /\ km' = None
    /\ IF CacheComplete(object_dir_file_num(fs, PathOf(train)))
       THEN /\ haralicks' = get_obj(fs, train, "haralicks")
            /\ lbps' = get_obj(fs, train, "lbps")
            /\ labels' = get_obj(fs, train, "labels")
            /\ surf_descriptors' = get_obj(fs, train, "surfdescriptors")
            /\ alldescriptors' = List(<<>>)
            /\ reads' = {GetObjFilename(train, c) :
                            c \in {"haralicks", "lbps", "labels", "surfdescriptors"}}
                        \cap DOMAIN fs
            /\ decodes' = 0
            /\ pc' = "return"
       ELSE /\ haralicks' = List([i \in 1 .. Len(Images) |-> compute_texture(Images[i])])
            /\ lbps' = List([i \in 1 .. Len(Images) |-> compute_lbp(Images[i])])
            /\ labels' = IF train
                         THEN List([i \in 1 .. Len(Images) |-> LabelOf(Images[i])])
                         ELSE List(<<>>)
            /\ alldescriptors' = List([i \in 1 .. Len(Images) |-> DenseSurf(Images[i])])
            /\ surf_descriptors' = None
            /\ reads' = {}
            /\ decodes' = Len(Images)
            /\ pc' = IF Images = <<>> THEN "error" ELSE "get_kmeans"
    /\ UNCHANGED <<fs, writer, train, train_images, test_images, train_result,
                   test_result, csv, runs>>

\* lines 399-410 and get_kmeans (lines 255-270): the cached model of the split if
\* there is one, else a fit that is saved; then one histogram per image
GetKmeans ==
    /\ pc = "get_kmeans"
    /\ LET k == KOf(train)
           concatenated == Subsample(Concatenate(alldescriptors.rows))
           cached == get_obj(fs, train, "k_means")
       IN  /\ IF cached # None
              THEN /\ km' = cached
                   /\ reads' = reads \cup {GetObjFilename(train, "k_means")}
                   /\ UNCHANGED <<fs, writer, fits, wlog>>
              ELSE /\ \E seed \in 1 .. MaxSeed : km' = Fit(k, concatenated, seed)
                   /\ fits' = fits + 1
                   /\ fs' = save_obj(fs, train, "k_means", km')
                   /\ writer' = WriteFile(writer, SaveObjFilename(train, "k_means"), train)
                   /\ wlog' = wlog \cup {SaveObjFilename(train, "k_means")}
                   /\ UNCHANGED reads
           /\ surf_descriptors' =
                 NdArray(List([i \in 1 .. Len(alldescriptors.rows) |->
                                  Encode(km', k, alldescriptors.rows[i])]))
    /\ haralicks' = NdArray(haralicks)
    /\ lbps' = NdArray(lbps)
    /\ labels' = NdArray(labels)
    /\ pc' = "save_surfdescriptors"
    /\ UNCHANGED <<train, train_images, test_images, alldescriptors, train_result,
                   test_result, csv, runs, decodes, preexisting>>

\* one save_obj call of lines 412-415
SaveStep(at, objectContent, obj, next) ==
    /\ pc = at
    /\ fs' = save_obj(fs, train, objectContent, obj)
    /\ writer' = WriteFile(writer, SaveObjFilename(train, objectContent), train)
    /\ wlog' = wlog \cup {SaveObjFilename(train, objectContent)}
    /\ pc' = next
    /\ UNCHANGED <<train, train_images, test_images, haralicks, lbps, labels,
                   alldescriptors, km, surf_descriptors, train_result, test_result,
                   csv, runs, decodes, fits, reads, preexisting>>

\* line 412
SaveSurfdescriptors ==
    SaveStep("save_surfdescriptors", "surfdescriptors", surf_descriptors, "save_haralicks")

\* line 413
SaveHaralicks == SaveStep("save_haralicks", "haralicks", haralicks, "save_lbps")

\* line 414
SaveLbps == SaveStep("save_lbps", "lbps", lbps, "save_labels")

\* line 415
SaveLabels == SaveStep("save_labels", "labels", labels, "return")

\* line 418: what the call returns
Returned ==
    [type |-> "tuple", haralicks |-> haralicks, lbps |-> lbps, labels |-> labels,
     surf_descriptors |-> surf_descriptors]

\* lines 427-432: the training call returns and the test call starts
ReturnTrain ==
    /\ pc = "return"
    /\ train
    /\ train_result' = Returned
    /\ train' = FALSE
    /\ pc' = "get_features"
    /\ FreshLocals
    /\ FreshHistory
    /\ UNCHANGED <<fs, writer, train_images, test_images, test_result, csv, runs>>

\* lines 432-434: the test call returns
ReturnTest ==
    /\ pc = "return"
    /\ ~train
    /\ test_result' = Returned
    /\ pc' = "classify"
    /\ UNCHANGED <<fs, writer, train, train_images, test_images, haralicks, lbps, labels,
                   alldescriptors, km, surf_descriptors, train_result, csv, runs,
                   decodes, fits, reads, wlog, preexisting>>

\* line 184: x.split('/')[-1]
Basename(fname) == fname[Len(fname)]

\* lines 199-200: the columns of the file
Header == <<"img">> \o ClassNames

\* lines 182-200: one row per image; preds has one row per row of the test
\* features, and columns of different lengths make no data frame
create_submission(preds_rows, images) ==
    IF preds_rows = Len(images)
    THEN [type |-> "csv",
          rows |-> <<Header>> \o [i \in 1 .. Len(images) |-> <<Basename(images[i])>>]]
    ELSE None

\* number of rows of a feature matrix
Rows(matrix) == IF matrix = None THEN 0 ELSE Len(matrix.rows)

\* lines 437-441: accuracy predicts the test features and writes the submission
Classify ==
    /\ pc = "classify"
    /\ LET out == create_submission(Rows(test_result.haralicks), test_images)
       IN  IF out = None
           THEN pc' = "error" /\ UNCHANGED csv
           ELSE pc' = "done" /\ csv' = out
    /\ UNCHANGED <<fs, writer, train, train_images, test_images, haralicks, lbps, labels,
                   alldescriptors, km, surf_descriptors, train_result, test_result, runs,
                   decodes, fits, reads, wlog, preexisting>>

\* the process is killed: everything but the files is lost
Interrupt ==
    /\ pc \in {"get_features", "get_kmeans", "save_surfdescriptors", "save_haralicks",
               "save_lbps", "save_labels", "return", "classify"}
    /\ pc' = "idle"
    /\ train' = TRUE
    /\ train_images' = <<>>
    /\ test_images' = <<>>
    /\ train_result' = None
    /\ test_result' = None
    /\ FreshLocals
    /\ FreshHistory
    /\ UNCHANGED <<fs, writer, csv, runs>>

Next ==
    \/ (StartScript /\ UNCHANGED encVars)
    \/ (GetFeaturesEntry /\ UNCHANGED encVars)
    \/ (GetKmeans /\ UNCHANGED encVars)
    \/ (SaveSurfdescriptors /\ UNCHANGED encVars)
    \/ (SaveHaralicks /\ UNCHANGED encVars)
    \/ (SaveLbps /\ UNCHANGED encVars)
    \/ (SaveLabels /\ UNCHANGED encVars)
    \/ (ReturnTrain /\ UNCHANGED encVars)
    \/ (ReturnTest /\ UNCHANGED encVars)
    \/ (Classify /\ UNCHANGED encVars)
    \/ (Interrupt /\ UNCHANGED encVars)

Spec == Init /\ [][Next]_vars

----------------------------------------------------------------------------
(* The encoder alone: lines 404-405 applied to one descriptor set *)

BoundedSeqs(S, n) == UNION {[1 .. m -> S] : m \in 0 .. n}

InitEncode ==
    /\ InitPipe
    /\ enc_train \in BOOLEAN
    /\ enc_d \in BoundedSeqs(DescVals, MaxDesc)
    /\ \E x \in DescVals, seed \in 1 .. MaxSeed :
          enc_km = Fit(KOf(enc_train), <<x>>, seed)
    /\ enc_out = None

EncodeImage ==
    /\ enc_out = None
    /\ enc_out' = NdArray(List(Encode(enc_km, KOf(enc_train), enc_d)))
    /\ UNCHANGED <<enc_train, enc_d, enc_km>>

NextEncode == EncodeImage /\ UNCHANGED pipeVars

SpecEncode == InitEncode /\ [][NextEncode]_vars

----------------------------------------------------------------------------
(* Vocabulary of the properties *)

\* the artifact kinds the script names (lines 256, 372-375, 412-415)
ArtifactKinds == {"k_means", "surfdescriptors", "haralicks", "lbps", "labels"}

\* a get_features call is past its cache check and has not returned to the script
InCall ==
    pc \in {"get_kmeans", "save_surfdescriptors", "save_haralicks", "save_lbps",
            "save_labels", "return"}

\* the call in progress has a vocabulary and has built its histograms
Encoded == InCall /\ pc # "get_kmeans" /\ km # None

\* the split's five artifacts were all there when the call in progress began
BeganWarm == \A c \in ArtifactKinds : GetObjFilename(train, c) \in preexisting

\* what the split's directory holds
Persisted(files, tr) == [f \in ObjFiles(files, PathOf(tr)) |-> files[f]]

RECURSIVE SumRange(_, _, _)
SumRange(h, lo, hi) ==
    IF lo > hi THEN 0
    ELSE IF lo = hi THEN h[lo]
    ELSE LET mid == (lo + hi) \div 2
         IN  SumRange(h, lo, mid) + SumRange(h, mid + 1, hi)

\* round(sqrt(n / 2)), n / 2 a real number
RoundSqrtHalf(n) == (Isqrt(2 * n) + 1) \div 2

----------------------------------------------------------------------------
(* Properties *)

\* C1: the vocabulary is fitted only while processing the training split; a test
\* call performs no fit and encodes with exactly the vocabulary persisted for
\* the training split.
C1_VocabularyFittedOnTrainOnly ==
    /\ (InCall /\ ~train) => fits = 0
    /\ (Encoded /\ ~train) => km = get_obj(fs, TRUE, "k_means")

\* C2: a call that begins with the split's cache warm returns exactly the
\* persisted haralicks, lbps, labels and histograms, decodes no image, runs no
\* clustering and writes no artifact; and a warm cache never changes again, so
\* all later calls return the same.
C2_WarmCacheIdempotent ==
    /\ []((InCall /\ BeganWarm) =>
            /\ pc = "return"
            /\ decodes = 0
            /\ fits = 0
            /\ wlog = {}
            /\ \A c \in {"haralicks", "lbps", "labels"} :
                  GetObjFilename(train, c) \in DOMAIN fs
            /\ haralicks = Unpickle(fs[GetObjFilename(train, "haralicks")])
            /\ lbps = Unpickle(fs[GetObjFilename(train, "lbps")])
            /\ labels = Unpickle(fs[GetObjFilename(train, "labels")])
            /\ surf_descriptors = Unpickle(fs[GetObjFilename(train, "surfdescriptors")]))
    /\ [][\A tr \in BOOLEAN :
            (\A c \in ArtifactKinds : GetObjFilename(tr, c) \in DOMAIN fs)
                => Persisted(fs', tr) = Persisted(fs, tr)]_vars

\* a call for a non-empty training list is served from the warm cache
C2_Witness ==
    /\ pc = "return"
    /\ train
    /\ BeganWarm
    /\ km = None
    /\ Len(train_images) > 0

\* C3: whatever get_features(True, images) returns, recomputed or cached, the
\* label vector has one entry per image of the list passed and entry i is the
\* class directory of images[i]; row i of the matrices belongs to images[i].
C3_RowsAlignedWithImages ==
    (pc = "return" /\ train) =>
        /\ labels # None
        /\ haralicks # None
        /\ lbps # None
        /\ Len(labels.rows) = Len(train_images)
        /\ Len(haralicks.rows) = Len(train_images)
        /\ Len(lbps.rows) = Len(train_images)
        /\ \A i \in 1 .. Len(train_images) :
              /\ labels.rows[i] = train_images[i][3]
              /\ haralicks.rows[i] = compute_texture(train_images[i])
              /\ lbps.rows[i] = compute_lbp(train_images[i])

C5_SplitIsolation ==
    /\ [](\A f \in DOMAIN fs :
            \/ f.dir = TrainDir /\ f.name[1] = "train_" /\ writer[f] = TRUE
            \/ f.dir = TestDir /\ f.name[1] = "test_" /\ writer[f] = FALSE)
    /\ [](\A f \in reads \cup wlog : f.dir = PathOf(train))
    /\ [][\A f \in DOMAIN fs :
            f.dir # PathOf(train) => (f \in DOMAIN fs' /\ fs'[f] = fs[f])]_vars

\* a test call is writing while the training split has artifacts
C5_Witness ==
    /\ pc = "save_haralicks"
    /\ ~train
    /\ wlog # {}
    /\ ObjFiles(fs, TrainDir) # {}

\* C6 as stated: a call rewrites no artifact that was already written when it
\* began (each kind already written is reused).
C6_ReusesEveryWrittenKind == wlog \cap preexisting = {}

\* C6 amended: a call that does not find all five artifacts decodes every image
\* again; it reuses the vocabulary if that was already written (no fit, no
\* rewrite) and fits and writes it otherwise; and it writes surfdescriptors,
\* haralicks, lbps and labels anew, already written or not.
C6_ResumeReusesOnlyVocabulary ==
    (InCall /\ ~BeganWarm) =>
        LET kf == GetObjFilename(train, "k_means")
            file(c) == GetObjFilename(train, c)
        IN  /\ decodes = Len(Images)
            /\ decodes > 0
            /\ pc # "get_kmeans" =>
                  /\ kf \in preexisting =>
                        (fits = 0 /\ kf \notin wlog /\ km = Unpickle(fs[kf]))
                  /\ kf \notin preexisting => (fits = 1 /\ kf \in wlog)
            /\ pc \in {"save_haralicks", "save_lbps", "save_labels", "return"}
                  => file("surfdescriptors") \in wlog
            /\ pc \in {"save_lbps", "save_labels", "return"} => file("haralicks") \in wlog
            /\ pc \in {"save_labels", "return"} => file("lbps") \in wlog
            /\ pc = "return" => file("labels") \in wlog

\* a resumed call reused the vocabulary and rewrote the histograms it found
C6_Witness ==
    /\ pc = "return"
    /\ km # None
    /\ GetObjFilename(train, "k_means") \in preexisting
    /\ GetObjFilename(train, "surfdescriptors") \in preexisting
    /\ GetObjFilename(train, "surfdescriptors") \in wlog
    /\ fits = 0

\* C7: with an empty test directory the test call raises no error, and the
\* submission written holds the header row only.
C7_EmptyTestSplitCompletes ==
    /\ ~(pc = "error" /\ ~train /\ test_images = <<>>)
    /\ (pc = "done" /\ test_images = <<>>) => csv.rows = <<Header>>

\* C8: no vocabulary-model and no label-vector artifact is ever written under the
\* test namespace.
C8_VocabularyAndLabelsTrainOnly ==
    \A f \in DOMAIN fs : f.dir = TestDir => f.name[2] \notin {"k_means", "labels"}

\* C9: the K passed to the clustering and used as the histogram length is the
\* integer round(sqrt(N/2)), N = 22425 for train and 79727 for test.
C9_KIsRoundedSqrt ==
    (Encoded /\ fits = 1) =>
        LET K == RoundSqrtHalf(IF train THEN 22425 ELSE 79727)
        IN  /\ IsIntegral(km.n_clusters)
            /\ NumCenters(km) = K
            /\ \A i \in 1 .. Len(surf_descriptors.rows) : Len(surf_descriptors.rows[i]) = K

\* C10: whenever a split's directory holds exactly five .obj files, all of
\* k_means, surfdescriptors, haralicks, lbps and labels exist for that split, and
\* a call served from the cache returns no None.
C10_FiveFilesMeansComplete ==
    /\ \A tr \in BOOLEAN :
          object_dir_file_num(fs, PathOf(tr)) = 5 =>
              \A c \in ArtifactKinds : get_obj(fs, tr, c) # None
    /\ (pc = "return" /\ km = None) =>
          /\ haralicks # None
          /\ lbps # None
          /\ labels # None
          /\ surf_descriptors # None

\* a test call is served from a directory of exactly five files
C10_Witness ==
    /\ pc = "return"
    /\ ~train
    /\ km = None
    /\ object_dir_file_num(fs, TestDir) = 5

====
